---- MODULE Spec2Model ----
(***************************************************************************)
(* The Glue-job export pipeline of src/main.py: the command line check,    *)
(* create_terraform_files (open the four project files, list jobs and      *)
(* triggers, normalize and dump each job, finish terraform.tfvars),        *)
(* upload_to_s3 (parse the URI, walk the tree, HEAD then upload) and the   *)
(* final message.  The local directory and the bucket outlive a process,   *)
(* so a process can start on what an earlier one left.                     *)
(*                                                                         *)
(* A string is a sequence of tokens (one-character tokens for a URI, name  *)
(* tokens for file names), so that splitting, joining and stripping are    *)
(* computed and not assumed.  A Python value is a record [t, s, n, m]:     *)
(* its type tag, its text, its number and, for a container, the kind of    *)
(* member it holds.  A file's content is the sequence of its lines.        *)
(***************************************************************************)
EXTENDS Integers, Sequences, FiniteSets, TLC

(***************************************************************************)
(* Bounds of the model.                                                    *)
(***************************************************************************)
\* longest job listing the provider returns
MaxJobs == 2
\* provider faults (other than "not found") met over all the processes
MaxFaults == 1
\* processes run one after the other over the same directory and bucket
MaxRuns == 2

(***************************************************************************)
(* Python values.                                                          *)
(***************************************************************************)
Val(t, s, n, m) == [t |-> t, s |-> s, n |-> n, m |-> m]
PyStr(s) == Val("str", s, 0, "")
PyInt(n) == Val("int", "", n, "")
PyNone == Val("none", "", 0, "")
\* a mapping / a list named by its text ("" is the empty one); m tells
\* whether a member is a datetime or a value json cannot encode
PyMap(s, m) == Val("map", s, 0, m)
PyList(s) == Val("list", s, 0, "")
\* the provider's wrapper {'Connections': [...]} around the connection list
Conns(s) == Val("conns", s, 0, "")
\* a datetime: s is its text to the second, n its microseconds
Datetime(s, n) == Val("datetime", s, n, "")
\* a value that is neither JSON-native nor a datetime
Opaque == Val("opaque", "", 0, "")

\* Python truthiness of a value (lines 80, 118)
Truthy(v) ==
    CASE v.t = "none" -> FALSE
      [] v.t = "str" -> v.s # ""
      [] v.t = "int" -> v.n # 0
      [] v.t \in {"map", "list"} -> v.s # ""
      [] OTHER -> TRUE

\* dict.get(key, default)
Get(d, k, default) == IF k \in DOMAIN d THEN d[k] ELSE default

(***************************************************************************)
(* Job records of the provider.                                            *)
(***************************************************************************)
OptionalFields ==
    {"Role", "Command", "MaxRetries", "Connections", "DefaultArguments",
     "Description", "GlueVersion", "MaxCapacity", "Timeout", "WorkerType",
     "NumberOfWorkers", "SecurityConfiguration"}

\* a well-formed value of each optional field
Sample(f) ==
    CASE f = "Role" -> PyStr("arn:role")
      [] f = "Command" -> PyMap("glueetl", "")
      [] f = "MaxRetries" -> PyInt(1)
      [] f = "Connections" -> Conns("c1")
      [] f = "DefaultArguments" -> PyMap("args", "")
      [] f = "Description" -> PyStr("nightly")
      [] f = "GlueVersion" -> PyStr("4.0")
      [] f = "MaxCapacity" -> PyInt(10)
      [] f = "Timeout" -> PyInt(60)
      [] f = "WorkerType" -> PyStr("G.1X")
      [] f = "NumberOfWorkers" -> PyInt(2)
      [] f = "SecurityConfiguration" -> PyStr("sc")

\* the job named n with the optional fields fs, each at its sample value
Job(n, fs) == [f \in fs \cup {"Name"} |-> IF f = "Name" THEN PyStr(n) ELSE Sample(f)]

\* d with key k set to v
Put(d, k, v) == [x \in DOMAIN d \cup {k} |-> IF x = k THEN v ELSE d[x]]

\* job a: every optional field present, with a security configuration
JobA == Job("a", OptionalFields)
\* job b: nothing but its name
JobB == Job("b", {})
\* job b with a Connections value that is no mapping
JobBadConn == Put(Job("b", {}), "Connections", PyNone)
\* job b with an argument json cannot encode
JobOpaque == Put(Job("b", {"Role"}), "DefaultArguments", PyMap("args", "opaque"))
\* a record without the Name key
JobNoName == [f \in {"Role"} |-> Sample(f)]

JobPool == {JobA, JobB, JobBadConn, JobOpaque, JobNoName}

\* the name a record is listed under ("" when it has none)
NameOf(j) == IF "Name" \in DOMAIN j THEN j["Name"].s ELSE ""

\* job names are the provider's unique key
UniqueNames(js) ==
    \A x, y \in 1..Len(js) : x # y => NameOf(js[x]) # NameOf(js[y])

JobLists ==
    {js \in UNION {[1..n -> JobPool] : n \in 0..MaxJobs} : UniqueNames(js)}

\* what get_security_configuration's call can meet at the provider
LookupResponses == {"found", "notfound", "fault"}

(***************************************************************************)
(* get_security_configuration (lines 25-30): the configuration, None when  *)
(* the provider answers EntityNotFoundException; any other error escapes.  *)
(***************************************************************************)
\* the except clause dropped: "not found" escapes like any other error
get_security_configuration_NoCatch(name, resp) ==
    [raised |-> resp # "found",
     value |-> IF resp = "found" THEN PyMap(name, "datetime") ELSE PyNone]

get_security_configuration(name, resp) ==
    [raised |-> resp = "fault",
     value |-> IF resp = "found"
               THEN PyMap(name, "datetime")   \* holds CreatedTimeStamp
               ELSE PyNone]

(***************************************************************************)
(* process_job_details (lines 59-86).                                      *)
(***************************************************************************)
DetailKeys ==
    <<"name", "role_arn", "command", "max_retries", "connections",
      "default_arguments", "description", "glue_version", "max_capacity",
      "timeout", "worker_type", "number_of_workers", "security_configuration">>

\* the source key each output key is read from (lines 63-75)
SourceKey(k) ==
    CASE k = "name" -> "Name"
      [] k = "role_arn" -> "Role"
      [] k = "command" -> "Command"
      [] k = "max_retries" -> "MaxRetries"
      [] k = "connections" -> "Connections"
      [] k = "default_arguments" -> "DefaultArguments"
      [] k = "description" -> "Description"
      [] k = "glue_version" -> "GlueVersion"
      [] k = "max_capacity" -> "MaxCapacity"
      [] k = "timeout" -> "Timeout"
      [] k = "worker_type" -> "WorkerType"
      [] k = "number_of_workers" -> "NumberOfWorkers"
      [] k = "security_configuration" -> "SecurityConfiguration"

\* the timeout default lost: every number defaults to 0
DefaultOf_ZeroTimeout(k) ==
    CASE k \in {"name", "role_arn", "description", "glue_version",
                "worker_type", "security_configuration"} -> PyStr("")
      [] k \in {"command", "default_arguments"} -> PyMap("", "")
      [] k = "connections" -> PyList("")
      [] OTHER -> PyInt(0)

\* the second argument of each job.get (lines 63-75)
DefaultOf(k) ==
    CASE k \in {"name", "role_arn", "description", "glue_version",
                "worker_type", "security_configuration"} -> PyStr("")
      [] k \in {"command", "default_arguments"} -> PyMap("", "")
      [] k = "connections" -> PyList("")
      [] k \in {"max_retries", "max_capacity", "number_of_workers"} -> PyInt(0)
      [] k = "timeout" -> PyInt(2880)

\* job.get('Connections', {}).get('Connections', []) (line 67): the inner
\* list; [] when the wrapper has none; AttributeError on a non-mapping
ConnectionsRaises(job) ==
    Get(job, "Connections", PyMap("", "")).t \notin {"conns", "map"}

ConnectionsOf(job) ==
    LET w == Get(job, "Connections", PyMap("", ""))
    IN  IF w.t = "conns" THEN PyList(w.s) ELSE PyList("")

\* the dict literal of lines 62-76
DetailsLiteral(job) ==
    [k \in {DetailKeys[x] : x \in 1..Len(DetailKeys)} |->
        IF k = "connections" THEN ConnectionsOf(job)
        ELSE Get(job, SourceKey(k), DefaultOf(k))]

\* status "ok": (job_name, job_details) returned; "skipped": the handler
\* printed and returned (PyNone, PyNone); "raise": the handler's own job['Name']
\* raised KeyError, which leaves the function.  called: whether
\* get_security_configuration was called.
process_job_details(job, resp) ==
    LET noName == "Name" \notin DOMAIN job
        scName == Get(job, "SecurityConfiguration", PyNone)
        called == ~noName /\ ~ConnectionsRaises(job) /\ Truthy(scName)
        sc == get_security_configuration(scName.s, resp)
        tryRaised == noName \/ ConnectionsRaises(job) \/ (called /\ sc.raised)
        lit == DetailsLiteral(job)
    IN  [status |-> IF ~tryRaised THEN "ok"
                    ELSE IF noName THEN "raise" ELSE "skipped",
         called |-> called,
         faulted |-> called /\ resp = "fault",
         job_name |-> IF tryRaised THEN PyNone ELSE job["Name"],
         job_details |-> IF tryRaised THEN <<>>
                         ELSE IF called
                              THEN Put(lit, "security_configuration", sc.value)
                              ELSE lit]

(***************************************************************************)
(* json.dump(job_details, f, indent=2, default=datetime_converter)         *)
(* (lines 53-56, 123).                                                     *)
(***************************************************************************)
\* strftime('%Y-%m-%dT%H:%M:%S') keeps the text to the second; anything
\* that is no datetime raises TypeError
datetime_converter(obj) ==
    [raised |-> obj.t # "datetime",
     value |-> IF obj.t = "datetime" THEN PyStr(obj.s) ELSE PyNone]

\* the member a container of kind m holds
MemberOf(v) ==
    IF v.m = "datetime" THEN Datetime("2024-05-01T10:00:00", 123456) ELSE Opaque

\* whether encoding v ends in TypeError
EncodeRaises(v) ==
    CASE v.t \in {"str", "int", "none", "list"} -> FALSE
      [] v.t \in {"map", "conns"} ->
            v.m # "" /\ datetime_converter(MemberOf(v)).raised
      [] OTHER -> datetime_converter(v).raised

Quoted(text) == "\"" \o text \o "\""

\* the JSON text of a value json encodes natively
EncodeNative(v) ==
    CASE v.t = "none" -> "null"
      [] v.t = "str" -> Quoted(v.s)
      [] v.t = "int" -> ToString(v.n)
      [] v.t = "list" -> "[" \o v.s \o "]"
      [] OTHER -> "{" \o v.s \o "}"

\* the JSON text written for v: a datetime (at top level or as a member)
\* goes through the converter first
Encode(v) ==
    CASE v.t \in {"none", "str", "int", "list"} -> EncodeNative(v)
      [] v.t \in {"map", "conns"} ->
            IF v.m = "" THEN EncodeNative(v)
            ELSE "{" \o v.s \o ": "
                   \o EncodeNative(datetime_converter(MemberOf(v)).value) \o "}"
      [] OTHER -> EncodeNative(datetime_converter(v).value)

\* one line of the pretty-printed object
JsonLine(k, text) == Quoted(k) \o ": " \o text

Min(S) == CHOOSE x \in S : \A y \in S : x <= y

\* the encoder writes key after key (indent is set, so the chunks go to the
\* file as they are produced): on TypeError the keys before it stay written
json_dump(details) ==
    LET bad == {x \in 1..Len(DetailKeys) : EncodeRaises(details[DetailKeys[x]])}
        n == IF bad = {} THEN Len(DetailKeys) ELSE Min(bad) - 1
    IN  [raised |-> bad # {},
         lines |-> [x \in 1..n |->
                      JsonLine(DetailKeys[x], Encode(details[DetailKeys[x]]))]]

(***************************************************************************)
(* Files.  A content is the sequence of the file's lines.                  *)
(***************************************************************************)
Line(text) == text

\* line 127
JobLine(name) ==
    "  " \o name \o " = jsondecode(file(\"files/" \o name \o ".tfvars.json\"))"

\* lines 98-103
MainTf == <<Line("provider aws"), Line("module glue")>>
\* lines 105-107
VariablesTf ==
    <<Line("variable aws_region"), Line("variable glue_jobs"),
      Line("variable tags")>>
\* line 109
TfvarsHead == <<Line("aws_region")>>
\* lines 125-133
TfvarsTail(names) ==
    <<Line("glue_jobs = {")>> \o [x \in 1..Len(names) |-> JobLine(names[x])]
        \o <<Line("}"), Line("tags")>>

TerraformDir == <<"terraform">>
FilesDir == <<"terraform", "/", "files">>
TopFiles == <<"main.tf", "outputs.tf", "terraform.tfvars", "variables.tf">>
Suffix == ".tfvars.json"

\* os.path.join(a, b)
os_path_join(a, b) ==
    IF a = <<>> THEN b
    ELSE IF a[Len(a)] = "/" THEN a \o b
    ELSE a \o <<"/">> \o b

\* os.path.relpath(path, start) for a path below start
os_path_relpath(path, start) == SubSeq(path, Len(start) + 2, Len(path))

\* f'terraform/files/{job_name}.tfvars.json' (line 122)
JsonPath(name) == <<"terraform", "/", "files", "/", name, Suffix>>

TopPath(f) == os_path_join(TerraformDir, <<f>>)

\* fs with the file at path (re)written
WriteFile(fs, path, content) ==
    [p \in DOMAIN fs \cup {path} |-> IF p = path THEN content ELSE fs[p]]

\* the job names for which files/ holds <name>.tfvars.json
JsonStems(fs) ==
    {p[5] : p \in {q \in DOMAIN fs : Len(q) = 6 /\ SubSeq(q, 1, 3) = FilesDir
                                      /\ q[6] = Suffix}}

\* a directory listing: the entries in an order the system chooses; the
\* model fixes one, and nothing below depends on which
RECURSIVE Listing(_)
Listing(S) ==
    IF S = {} THEN <<>>
    ELSE LET x == CHOOSE y \in S : TRUE IN <<x>> \o Listing(S \ {x})

\* the walk leaves out the files/ subdirectory
os_walk_TopOnly(fs) ==
    [x \in 1..Len(TopFiles) |-> [root |-> TerraformDir, file |-> <<TopFiles[x]>>]]

\* os.walk('terraform') (lines 139-140): (root, file) for the files of
\* terraform/, then for those of terraform/files/
os_walk(fs) ==
    LET stems == Listing(JsonStems(fs))
    IN  [x \in 1..Len(TopFiles) |-> [root |-> TerraformDir, file |-> <<TopFiles[x]>>]]
        \o [x \in 1..Len(stems) |-> [root |-> FilesDir, file |-> <<stems[x], Suffix>>]]

(***************************************************************************)
(* The bucket URI (line 137).                                              *)
(***************************************************************************)
Scheme == <<"s", "3", ":", "/", "/">>

\* str.replace("s3://", ""): every occurrence removed, left to right
RECURSIVE StrReplaceScheme(_)
StrReplaceScheme(s) ==
    IF s = <<>> THEN <<>>
    ELSE IF Len(s) >= Len(Scheme) /\ SubSeq(s, 1, Len(Scheme)) = Scheme
         THEN StrReplaceScheme(SubSeq(s, Len(Scheme) + 1, Len(s)))
         ELSE <<s[1]>> \o StrReplaceScheme(SubSeq(s, 2, Len(s)))

\* str.split("/", 1): the parts around the first "/", or the string alone
StrSplit1(s) ==
    LET at == {x \in 1..Len(s) : s[x] = "/"}
    IN  IF at = {} THEN <<s>>
        ELSE <<SubSeq(s, 1, Min(at) - 1), SubSeq(s, Min(at) + 1, Len(s))>>

\* the two-name unpacking raises ValueError unless split gave two parts
ParseBucketUri(bucket_uri) ==
    LET parts == StrSplit1(StrReplaceScheme(bucket_uri))
    IN  [raised |-> Len(parts) # 2,
         bucket_name |-> parts[1],
         prefix |-> IF Len(parts) = 2 THEN parts[2] ELSE <<>>]

UriGood == <<"s", "3", ":", "/", "/", "b", "/", "p">>
UriNoSlash == <<"s", "3", ":", "/", "/", "b">>
UriNoScheme == <<"b", "/", "p">>
Uris == {UriGood, UriNoSlash, UriNoScheme}

\* sys.argv[1:]: no argument, one URI, or one argument too many
Argvs == {<<>>} \cup {<<u>> : u \in Uris} \cup {<<UriGood, UriGood>>}

(***************************************************************************)
(* State.                                                                  *)
(***************************************************************************)
VARIABLES
    fs,           \* the local tree: path -> content (outlives a process)
    s3,           \* the bucket store: <<bucket, key>> -> content
    run,          \* the number of the process
    pc,           \* where the process is
    exit,         \* "running", "ok" (exit 0), or what ended the process
    argv,         \* sys.argv[1:]
    jobs,         \* the listing get_glue_jobs returned
    i,            \* the job the for loop of line 116 is at
    glue_jobs,    \* the keys of the glue_jobs dict, in insertion order
    job_name,     \* line 117: what process_job_details returned last
    job_details,  \* line 117
    outcomes,     \* per job taken by the loop: what happened to it
    bucket_name,  \* line 137
    prefix,       \* line 137
    walk,         \* the (root, file) pairs os.walk yields
    idx,          \* the pair the loop of lines 139-140 is at
    remote0,      \* the objects the bucket held when the walk began
    heads,        \* per file taken by the walk: the answer of head_object
    uploads,      \* the upload_file calls made, in order
    log,          \* the messages printed
    calls,        \* the provider operations called
    written,      \* the local paths opened for writing
    faults        \* provider faults met so far, over all processes

vars ==
    <<fs, s3, run, pc, exit, argv, jobs, i, glue_jobs, job_name, job_details,
      outcomes, bucket_name,
      prefix, walk, idx, remote0, heads, uploads, log, calls, written, faults>>

env == <<fs, s3, run>>
emit == <<jobs, i, glue_jobs, job_name, job_details, outcomes>>
publish == <<bucket_name, prefix, walk, idx, remote0, heads, uploads>>

Msg(kind, subj) == [kind |-> kind, subj |-> subj]

Fresh ==
    /\ pc = "start"
    /\ exit = "running"
    /\ argv = <<>>
    /\ jobs = <<>>
    /\ i = 1
    /\ glue_jobs = <<>>
    /\ job_name = PyNone
    /\ job_details = <<>>
    /\ outcomes = <<>>
    /\ bucket_name = <<>>
    /\ prefix = <<>>
    /\ walk = <<>>
    /\ idx = 1
    /\ remote0 = {}
    /\ heads = <<>>
    /\ uploads = <<>>
    /\ log = {}
    /\ calls = {}
    /\ written = {}
    /\ faults = 0

\* no output directory yet, an empty bucket, the first process not started
Init ==
    /\ fs = <<>>
    /\ s3 = <<>>
    /\ run = 1
    /\ Fresh

\* the process ends with an uncaught exception (or sys.exit(1))
Die(cause) ==
    /\ pc' = "exited"
    /\ exit' = cause

(***************************************************************************)
(* __main__ (lines 161-167).                                               *)
(***************************************************************************)
StartWith(args) ==
    /\ pc = "start"
    /\ \E a \in args :
        /\ argv' = a
        /\ IF Len(a) # 1
           THEN /\ log' = log \cup {Msg("usage", <<>>)}
                /\ Die("usage")
           ELSE /\ pc' = "create"
                /\ UNCHANGED <<log, exit>>
    /\ UNCHANGED <<env, emit, publish, calls, written, faults>>

\* started with any command line
Start == StartWith(Argvs)

\* started with a well-formed URI
StartWellFormed == StartWith({<<UriGood>>})

(***************************************************************************)
(* create_terraform_files (lines 89-133).                                  *)
(***************************************************************************)
\* lines 90-109: the four files are opened for writing and the fixed text
\* is written
OpenFiles ==
    /\ pc = "create"
    /\ fs' = WriteFile(WriteFile(WriteFile(WriteFile(fs,
                TopPath("main.tf"), MainTf),
                TopPath("variables.tf"), VariablesTf),
                TopPath("outputs.tf"), <<>>),
                TopPath("terraform.tfvars"), TfvarsHead)
    /\ written' = written \cup {TopPath(TopFiles[x]) : x \in 1..Len(TopFiles)}
    /\ pc' = "get_jobs"
    /\ UNCHANGED <<s3, run, exit, argv, emit, publish, log, calls, faults>>

\* get_glue_jobs (lines 13-22, 111): all pages concatenated, or the
\* provider's error, which nothing catches
GetJobs ==
    /\ pc = "get_jobs"
    /\ calls' = calls \cup {"get_jobs"}
    /\ \/ /\ \E js \in JobLists : jobs' = js
          /\ pc' = "get_triggers"
          /\ UNCHANGED <<exit, faults>>
       \/ /\ faults < MaxFaults
          /\ faults' = faults + 1
          /\ Die("get_jobs")
          /\ UNCHANGED jobs
    /\ UNCHANGED <<env, argv, i, glue_jobs, job_name, job_details, outcomes,
                   publish, log, written>>

\* get_triggers (lines 41-50, 112): the triggers are listed and not used
GetTriggers ==
    /\ pc = "get_triggers"
    /\ calls' = calls \cup {"get_triggers"}
    /\ \/ /\ pc' = "job_loop"
          /\ UNCHANGED <<exit, faults>>
       \/ /\ faults < MaxFaults
          /\ faults' = faults + 1
          /\ Die("get_triggers")
    /\ UNCHANGED <<env, argv, emit, publish, log, written>>

\* json.dump is called in the loop body, outside any try: its TypeError
\* ends create_terraform_files
DumpGoesOn_Skip(raised) == TRUE

DumpGoesOn(raised) == ~raised

Outcome(r, resp, dump) ==
    [status |-> r.status,
     lookup |-> IF r.called THEN resp ELSE "none",
     dump |-> dump]

\* one turn of the loop of lines 116-123
ProcessJob ==
    /\ pc = "job_loop"
    /\ i <= Len(jobs)
    /\ \E resp \in LookupResponses :
        LET r == process_job_details(jobs[i], resp)
            emitted == r.status = "ok" /\ Truthy(r.job_name)
                         /\ r.job_details # <<>>
            d == json_dump(r.job_details)
            dumpDies == emitted /\ ~DumpGoesOn(d.raised)
        IN  /\ r.called \/ resp = "found"
            /\ r.faulted => faults < MaxFaults
            /\ faults' = IF r.faulted THEN faults + 1 ELSE faults
            /\ calls' = IF r.called
                        THEN calls \cup {"get_security_configuration"}
                        ELSE calls
            /\ outcomes' = Append(outcomes,
                    Outcome(r, resp, IF ~emitted THEN "none"
                                     ELSE IF d.raised THEN "raised" ELSE "ok"))
            /\ log' = IF r.status = "skipped"
                      THEN log \cup {Msg("job_error", <<NameOf(jobs[i])>>)}
                      ELSE log
            /\ IF r.status = "raise"
               THEN UNCHANGED <<job_name, job_details>>
               ELSE /\ job_name' = r.job_name
                    /\ job_details' = r.job_details
            /\ IF emitted
               THEN /\ glue_jobs' = Append(glue_jobs, r.job_name.s)
                    /\ fs' = WriteFile(fs, JsonPath(r.job_name.s), d.lines)
                    /\ written' = written \cup {JsonPath(r.job_name.s)}
               ELSE UNCHANGED <<glue_jobs, fs, written>>
            /\ IF r.status = "raise"
               THEN Die("handler") /\ UNCHANGED i
               ELSE IF dumpDies
               THEN Die("json_dump") /\ UNCHANGED i
               ELSE i' = i + 1 /\ UNCHANGED <<pc, exit>>
    /\ UNCHANGED <<s3, run, argv, jobs, publish>>

\* lines 125-133: the glue_jobs block and the tags; the files are closed
WriteTfvars ==
    /\ pc = "job_loop"
    /\ i > Len(jobs)
    /\ fs' = WriteFile(fs, TopPath("terraform.tfvars"),
                       TfvarsHead \o TfvarsTail(glue_jobs))
    /\ pc' = "parse_uri"
    /\ UNCHANGED <<s3, run, exit, argv, emit, publish, log, calls, written,
                   faults>>

(***************************************************************************)
(* upload_to_s3 (lines 136-153).                                           *)
(***************************************************************************)
\* line 137, then the walk starts.  The locals of create_terraform_files
\* are gone by now and bucket_uri is not read again: they are cleared
ParseUri ==
    /\ pc = "parse_uri"
    /\ LET u == ParseBucketUri(argv[1])
       IN  IF u.raised
           THEN /\ Die("uri")
                /\ UNCHANGED <<publish, argv, emit>>
           ELSE /\ bucket_name' = u.bucket_name
                /\ prefix' = u.prefix
                /\ walk' = os_walk(fs)
                /\ remote0' = DOMAIN s3
                /\ pc' = "walk"
                /\ argv' = <<>>
                /\ jobs' = <<>>
                /\ i' = 1
                /\ glue_jobs' = <<>>
                /\ job_name' = PyNone
                /\ job_details' = <<>>
                /\ outcomes' = <<>>
                /\ UNCHANGED <<exit, idx, heads, uploads>>
    /\ UNCHANGED <<env, log, calls, written, faults>>

\* what the loop body does on head_object's answer (lines 145-153): "200"
\* no exception, "404" a ClientError with that code, "error" any other
HeadBranch_Overwrite(answer) ==
    IF answer = "error" THEN "report" ELSE "upload"

HeadBranch_ErrorUploads(answer) ==
    IF answer = "200" THEN "skip" ELSE "upload"

HeadBranch(answer) ==
    CASE answer = "200" -> "skip"
      [] answer = "404" -> "upload"
      [] OTHER -> "report"

\* one turn of the loop of lines 140-153
UploadFile ==
    /\ pc = "walk"
    /\ idx <= Len(walk)
    /\ LET local_path == os_path_join(walk[idx].root, walk[idx].file)
           s3_path == os_path_relpath(local_path, TerraformDir)
           s3_key == os_path_join(prefix, s3_path)
           obj == <<bucket_name, s3_key>>
       IN  \E answer \in {"200", "404", "error"}, put \in {"ok", "error"} :
            /\ answer = "200" => obj \in DOMAIN s3
            /\ answer = "404" => obj \notin DOMAIN s3
            /\ answer = "error" => faults < MaxFaults
            /\ HeadBranch(answer) # "upload" => put = "ok"
            /\ put = "error" => faults < MaxFaults
            /\ faults' = IF answer = "error" \/ put = "error"
                         THEN faults + 1 ELSE faults
            /\ heads' = Append(heads, answer)
            /\ idx' = idx + 1
            /\ calls' = calls \cup {"head_object"}
                   \cup IF HeadBranch(answer) = "upload"
                        THEN {"upload_file"} ELSE {}
            /\ CASE HeadBranch(answer) = "skip" ->
                      /\ log' = log \cup {Msg("skip", s3_key)}
                      /\ UNCHANGED <<s3, uploads, pc, exit>>
                 [] HeadBranch(answer) = "report" ->
                      /\ log' = log \cup {Msg("check_failed", s3_key)}
                      /\ UNCHANGED <<s3, uploads, pc, exit>>
                 [] OTHER ->
                      /\ uploads' = Append(uploads,
                              [path |-> local_path, bucket |-> bucket_name,
                               key |-> s3_key])
                      /\ IF put = "ok"
                         THEN /\ s3' = WriteFile(s3, obj, fs[local_path])
                              /\ log' = log \cup {Msg("uploaded", s3_key)}
                              /\ UNCHANGED <<pc, exit>>
                         ELSE /\ Die("upload_file")
                              /\ UNCHANGED <<s3, log>>
    /\ UNCHANGED <<fs, run, argv, emit, bucket_name, prefix, walk, remote0,
                   written>>

\* line 159: the walk is over, the message is printed, exit 0
Finish ==
    /\ pc = "walk"
    /\ idx > Len(walk)
    /\ log' = log \cup {Msg("success", <<>>)}
    /\ pc' = "exited"
    /\ exit' = "ok"
    /\ UNCHANGED <<env, argv, emit, publish, calls, written, faults>>

\* the tool is started again on the directory and bucket as they are
Restart ==
    /\ pc = "exited"
    /\ run < MaxRuns
    /\ run' = run + 1
    /\ pc' = "start"
    /\ exit' = "running"
    /\ argv' = <<>>
    /\ jobs' = <<>>
    /\ i' = 1
    /\ glue_jobs' = <<>>
    /\ job_name' = PyNone
    /\ job_details' = <<>>
    /\ outcomes' = <<>>
    /\ bucket_name' = <<>>
    /\ prefix' = <<>>
    /\ walk' = <<>>
    /\ idx' = 1
    /\ remote0' = {}
    /\ heads' = <<>>
    /\ uploads' = <<>>
    /\ log' = {}
    /\ calls' = {}
    /\ written' = {}
    /\ UNCHANGED <<fs, s3, faults>>

\* one process, started with any command line on no directory and an
\* empty bucket
Next ==
    \/ Start
    \/ OpenFiles
    \/ GetJobs
    \/ GetTriggers
    \/ ProcessJob
    \/ WriteTfvars
    \/ ParseUri
    \/ UploadFile
    \/ Finish

Spec == Init /\ [][Next]_vars

\* processes started one after the other with a well-formed URI, each on
\* the directory and the bucket the one before left
NextRerun ==
    \/ StartWellFormed
    \/ OpenFiles
    \/ GetJobs
    \/ GetTriggers
    \/ ProcessJob
    \/ WriteTfvars
    \/ ParseUri
    \/ UploadFile
    \/ Finish
    \/ Restart

SpecRerun == Init /\ [][NextRerun]_vars

(***************************************************************************)
(* process_job_details alone, over every choice of the optional fields:    *)
(* the loop of line 116 is about to take the one job of the listing.       *)
(***************************************************************************)
\* each optional field absent or at its sample value; with them an empty
\* or null security configuration name, a wrapper without the inner list
\* and a Connections value that is no mapping
NormalizeJobs ==
    {Job("a", f) : f \in SUBSET OptionalFields}
      \cup {Put(Job("a", f), "SecurityConfiguration", v) :
              f \in SUBSET {"Role", "Timeout"}, v \in {PyStr(""), PyNone}}
      \cup {Put(Job("a", f), "Connections", v) :
              f \in SUBSET {"Role", "SecurityConfiguration"},
              v \in {PyMap("", ""), PyNone}}

InitNormalize ==
    /\ fs = WriteFile(WriteFile(WriteFile(WriteFile(<<>>,
                TopPath("main.tf"), MainTf),
                TopPath("variables.tf"), VariablesTf),
                TopPath("outputs.tf"), <<>>),
                TopPath("terraform.tfvars"), TfvarsHead)
    /\ s3 = <<>>
    /\ run = 1
    /\ pc = "job_loop"
    /\ exit = "running"
    /\ argv = <<UriGood>>
    /\ \E j \in NormalizeJobs : jobs = <<j>>
    /\ i = 1
    /\ glue_jobs = <<>>
    /\ job_name = PyNone
    /\ job_details = <<>>
    /\ outcomes = <<>>
    /\ bucket_name = <<>>
    /\ prefix = <<>>
    /\ walk = <<>>
    /\ idx = 1
    /\ remote0 = {}
    /\ heads = <<>>
    /\ uploads = <<>>
    /\ log = {}
    /\ calls = {"get_jobs", "get_triggers"}
    /\ written = {TopPath(TopFiles[x]) : x \in 1..Len(TopFiles)}
    /\ faults = 0

NextNormalize == ProcessJob

SpecNormalize == InitNormalize /\ [][NextNormalize]_vars

(***************************************************************************)
(* Properties.                                                             *)
(***************************************************************************)
Range(f) == {f[x] : x \in DOMAIN f}

Tfvars == TopPath("terraform.tfvars")

\* the lines between "glue_jobs = {" and the "}" that closes it
GlueJobsBlock(content) ==
    LET open == {x \in 1..Len(content) : content[x] = Line("glue_jobs = {")}
        close == {x \in 1..Len(content) : content[x] = Line("}")}
    IN  IF open = {} \/ close = {} THEN {}
        ELSE {content[x] : x \in (Min(open) + 1)..(Min(close) - 1)}

\* the URI is s3://<bucket>/<prefix>: the scheme, then a "/" further on
WellFormedUri(u) ==
    /\ Len(u) >= Len(Scheme)
    /\ SubSeq(u, 1, Len(Scheme)) = Scheme
    /\ \E x \in (Len(Scheme) + 1)..Len(u) : u[x] = "/"

\* the key the x-th file of the walk goes to: prefix/<path below terraform/>
KeyAt(x) ==
    prefix \o <<"/">>
      \o (IF walk[x].root = TerraformDir THEN <<>> ELSE <<"files", "/">>)
      \o walk[x].file

PathAt(x) == walk[x].root \o <<"/">> \o walk[x].file

UploadedKeys == {uploads[x].key : x \in 1..Len(uploads)}

\* C1: a process started with a malformed bucket URI has called no provider
\* operation and written no local file.
C1_UsageErrorBeforeSideEffects ==
    (Len(argv) = 1 /\ ~WellFormedUri(argv[1])) => (calls = {} /\ written = {})

\* C2: when create_terraform_files has returned, the jobs named in the
\* glue_jobs block of terraform.tfvars, the <name>.tfvars.json files of
\* files/ and the jobs normalized in this run are the same set.
C2_TfvarsMatchesFiles ==
    pc = "parse_uri" =>
        LET normalized == {NameOf(jobs[x]) :
                             x \in {y \in 1..Len(outcomes) :
                                      outcomes[y].status = "ok"}}
        IN  /\ GlueJobsBlock(fs[Tfvars]) = {JobLine(n) : n \in JsonStems(fs)}
            /\ JsonStems(fs) = normalized

\* C3 (first part): a file whose key the bucket already held, and whose
\* check was answered, is skipped with a message and not uploaded.
C3_Skipped ==
    \A x \in 1..Len(heads) :
        (<<bucket_name, KeyAt(x)>> \in remote0 /\ heads[x] # "error") =>
            /\ Msg("skip", KeyAt(x)) \in log
            /\ KeyAt(x) \notin UploadedKeys

\* C3 (whole): the skip above holds in every state, and once a key holds
\* an object no step of any run removes or replaces that object.
C3_NeverOverwritten ==
    [](C3_Skipped)
      /\ [][\A o \in DOMAIN s3 : o \in DOMAIN s3' /\ s3'[o] = s3[o]]_vars

\* a file was skipped although its local content differs from the object
C3_Witness ==
    \E x \in 1..Len(heads) :
        /\ heads[x] = "200"
        /\ Msg("skip", KeyAt(x)) \in log
        /\ s3[<<bucket_name, KeyAt(x)>>] # fs[PathAt(x)]

\* C4: a publish run that found no object under the prefix, and every
\* check of which was answered, has uploaded each local file once, to
\* prefix/<its path below terraform/>, and nothing else.
NothingUnderPrefix ==
    \A o \in remote0 :
        ~(/\ o[1] = bucket_name
          /\ Len(o[2]) > Len(prefix)
          /\ SubSeq(o[2], 1, Len(prefix) + 1) = prefix \o <<"/">>)

C4_OneUploadPerFile ==
    (exit = "ok" /\ NothingUnderPrefix /\ "error" \notin Range(heads)) =>
        /\ Len(uploads) = Cardinality(DOMAIN fs)
        /\ Range(uploads) =
              {[path |-> PathAt(x), bucket |-> bucket_name, key |-> KeyAt(x)] :
                 x \in 1..Len(walk)}
        /\ {PathAt(x) : x \in 1..Len(walk)} = DOMAIN fs
        /\ \A o \in {<<bucket_name, k>> : k \in UploadedKeys} : o \in DOMAIN s3

\* a tree with job files, published whole into an empty prefix
C4_Witness ==
    /\ exit = "ok"
    /\ NothingUnderPrefix
    /\ "error" \notin Range(heads)
    /\ Len(uploads) = 6

\* C5: a job whose extraction raised is named in a logged message and
\* skipped, the run goes on, and N-K JSON files are written.
C5_FailedJobSkipped ==
    LET failed == {x \in 1..Len(outcomes) : outcomes[x].status # "ok"}
    IN  /\ \A x \in failed : Msg("job_error", <<NameOf(jobs[x])>>) \in log
        /\ failed # {} => exit # "handler"
        /\ pc = "parse_uri" =>
              Cardinality({p \in written : Len(p) = 6})
                 = Len(jobs) - Cardinality(failed)

\* C6: a provider fault in the security configuration lookup ends the run.
C6_LookupFaultFatal ==
    (\E x \in 1..Len(outcomes) : outcomes[x].lookup = "fault") =>
        (pc = "exited" /\ exit # "ok")

\* whether json can write every value of the record it gets for the job
Serializable(job) ==
    \A f \in DOMAIN job \ {"SecurityConfiguration", "Connections"} :
        ~EncodeRaises(job[f])

\* C7: a job whose security configuration the provider does not find is
\* normalized with the key set to None, entered in glue_jobs and written
\* with "security_configuration": null; the run is not ended by it.
C7_NotFoundIsNull ==
    \A x \in 1..Len(outcomes) :
        outcomes[x].lookup = "notfound" =>
            /\ outcomes[x].status = "ok"
            /\ NameOf(jobs[x]) \in Range(glue_jobs)
            /\ x = Len(outcomes) =>
                  /\ "security_configuration" \in DOMAIN job_details
                  /\ job_details["security_configuration"] = PyNone
            /\ Serializable(jobs[x]) =>
                  /\ outcomes[x].dump = "ok"
                  /\ JsonLine("security_configuration", "null")
                        \in Range(fs[JsonPath(NameOf(jobs[x]))])
                  /\ Len(fs[JsonPath(NameOf(jobs[x]))]) = Len(DetailKeys)
                  /\ x = Len(outcomes) => exit \notin {"handler", "json_dump"}

C7_Witness ==
    \E x \in 1..Len(outcomes) :
        /\ outcomes[x].lookup = "notfound"
        /\ pc = "parse_uri"
        /\ JsonLine("security_configuration", "null")
              \in Range(fs[JsonPath(NameOf(jobs[x]))])

DocumentedDefault(k) ==
    CASE k \in {"role_arn", "description", "glue_version", "worker_type",
                "security_configuration", "name"} -> PyStr("")
      [] k \in {"command", "default_arguments"} -> PyMap("", "")
      [] k = "connections" -> PyList("")
      [] k \in {"max_retries", "max_capacity", "number_of_workers"} -> PyInt(0)
      [] k = "timeout" -> PyInt(2880)

Returned == outcomes # <<>> /\ outcomes[Len(outcomes)].status = "ok"

TheJob == jobs[Len(outcomes)]

AllKeys == Range(DetailKeys)

\* C9 as stated: the returned record has the thirteen keys, an absent field
\* at its default and a present field copied unchanged.
C9_DefaultsAndCopies ==
    Returned =>
        /\ DOMAIN job_details = AllKeys
        /\ \A k \in AllKeys :
              job_details[k] = IF SourceKey(k) \in DOMAIN TheJob
                               THEN TheJob[SourceKey(k)]
                               ELSE DocumentedDefault(k)

\* C9 amended: as stated, but connections is the list inside the
\* Connections wrapper (empty when the wrapper has none) and a non-empty
\* security configuration name is replaced by what the lookup gave.
C9_DefaultsAndCopiesAmended ==
    Returned =>
        /\ DOMAIN job_details = AllKeys
        /\ Cardinality(AllKeys) = 13
        /\ \A k \in AllKeys :
              job_details[k] =
                 IF SourceKey(k) \notin DOMAIN TheJob THEN DocumentedDefault(k)
                 ELSE IF k = "connections"
                      THEN PyList(IF TheJob["Connections"].t = "conns"
                                  THEN TheJob["Connections"].s ELSE "")
                 ELSE IF k = "security_configuration"
                           /\ outcomes[Len(outcomes)].lookup # "none"
                      THEN IF outcomes[Len(outcomes)].lookup = "found"
                           THEN PyMap(TheJob[SourceKey(k)].s, "datetime")
                           ELSE PyNone
                 ELSE TheJob[SourceKey(k)]
        /\ outcomes[Len(outcomes)].lookup # "none"
              <=> /\ "SecurityConfiguration" \in DOMAIN TheJob
                  /\ TheJob["SecurityConfiguration"].t = "str"
                  /\ TheJob["SecurityConfiguration"].s # ""

\* a record returned for a job without Timeout and with a configuration
\* that was found
C9_Witness ==
    /\ Returned
    /\ "Timeout" \notin DOMAIN TheJob
    /\ "Role" \in DOMAIN TheJob
    /\ outcomes[Len(outcomes)].lookup = "found"

\* C10 as stated: a value json cannot encode costs only its own job.
C10_DumpErrorSkipsJob ==
    \A x \in 1..Len(outcomes) :
        outcomes[x].dump = "raised" =>
            /\ exit # "json_dump"
            /\ JsonPath(NameOf(jobs[x])) \notin DOMAIN fs

\* C10 amended: the TypeError of json.dump ends the run: no later job is
\* taken, the glue_jobs block is not written, nothing is published, the
\* success message is not printed, and the job's file is left truncated.
C10_DumpErrorFatal ==
    \A x \in 1..Len(outcomes) :
        outcomes[x].dump = "raised" =>
            /\ pc = "exited"
            /\ exit = "json_dump"
            /\ x = Len(outcomes)
            /\ fs[Tfvars] = TfvarsHead
            /\ uploads = <<>>
            /\ calls \cap {"head_object", "upload_file"} = {}
            /\ Msg("success", <<>>) \notin log
            /\ JsonPath(NameOf(jobs[x])) \in DOMAIN fs
            /\ Len(fs[JsonPath(NameOf(jobs[x]))]) < Len(DetailKeys)

\* the run ended on the first of two jobs
C10_Witness ==
    /\ exit = "json_dump"
    /\ Len(outcomes) = 1
    /\ Len(jobs) = 2

====
